---- MODULE Spec2Model ----
(***************************************************************************)
(* Model of tplan: the todo.txt codec of src/src/lib.rs (Task::from_str,   *)
(* Task::to_string, TodoFile::load, TodoFile::save) and the three-mode     *)
(* editor of src/src/main.rs (App and the key dispatch of run).            *)
(*                                                                         *)
(* A Rust String is a sequence of UTF-8 bytes.  Bytes are the strings      *)
(* "x", " ", "C3", "A9" and "LF"; the character e-acute is the two bytes   *)
(* C3 A9, so that byte offsets and character boundaries differ as they do  *)
(* in the program.                                                         *)
(*                                                                         *)
(* A usize is kept as its representative modulo 2^64 in (-2^63, 2^63):     *)
(* -1 is usize::MAX.  Adding or subtracting one is then plain integer      *)
(* arithmetic, and wrapping happens exactly at 0 and at -1.                *)
(***************************************************************************)
EXTENDS Integers, Sequences, FiniteSets, TLC

VARIABLES
    tasks,        \* app.todo_file.tasks
    mode,         \* app.mode
    is_running,   \* app.is_running
    is_dirty,     \* app.is_dirty
    file,         \* the bytes of the file at app.todo_file.path
    pc,           \* "run": at the head of run's loop; "done": run returned
                  \* Ok; "io_error": run returned Err; "panic": a panic
                  \* ended the program; "codec...": the codec on its own
    key,          \* the last key event an arm of run's match handled
    save_result,  \* what app.save() returned in that iteration, if called
    written,      \* the tasks of the last save that returned Ok (before
                  \* the first one, the tasks loaded)
    saves,        \* 0: no save has returned Ok yet; 1: one has; 2: the save
                  \* of the last iteration returned Ok and wrote the very
                  \* sequence that the save before it had written
    wrapped,      \* an overflow has wrapped: the build has overflow checks off
    io_faults     \* whether the file system may fail File::create and write

vars == <<tasks, mode, is_running, is_dirty, file, pc, key, save_result,
          written, saves, wrapped, io_faults>>

(* ------------------------------ bounds --------------------------------- *)

\* most records the document may grow to by insert and append
MaxTasks == 3
\* most characters the edit buffer and the summaries may grow to by typing
MaxChars == 1
\* how far a selection index may walk away from the document's indices
MaxWalk == 1
\* most characters typed in a row into a fresh buffer
MaxTyped == 2
\* most records of a sequence given to the codec alone
MaxCodecTasks == 2
\* most bytes of a summary given to the codec alone
MaxCodecLen == 2
\* most bytes of a file given to TodoFile::load alone
MaxFileLen == 5

Min(a, b) == IF a < b THEN a ELSE b
Max(a, b) == IF a > b THEN a ELSE b

(* ------------------------------ strings -------------------------------- *)

CharX == <<"x">>
CharSpace == <<" ">>
CharEAcute == <<"C3", "A9">>

\* the characters a summary or a line is made of
Chars == {CharX, CharSpace, CharEAcute}

\* the characters KeyCode::Char delivers while editing
KeyChars == {CharX, CharEAcute}

RECURSIVE StringsOfLen(_)
\* every string of exactly n bytes made of whole characters
StringsOfLen(n) ==
    IF n = 0 THEN {<<>>}
    ELSE UNION {{c \o s : s \in StringsOfLen(n - Len(c))} :
                    c \in {d \in Chars : Len(d) <= n}}

StringsUpTo(n) == UNION {StringsOfLen(k) : k \in 0..n}

\* a UTF-8 continuation byte (0x80..0xBF)
IsContinuation(b) == b = "A9"

\* str::is_char_boundary, idx a byte offset counted from 0
is_char_boundary(s, idx) ==
    \/ idx = 0
    \/ idx = Len(s)
    \/ idx > 0 /\ idx < Len(s) /\ ~IsContinuation(s[idx + 1])

\* the bytes of the character that starts at byte offset idx
CharAt(s, idx) ==
    IF idx + 2 <= Len(s) /\ IsContinuation(s[idx + 2])
    THEN SubSeq(s, idx + 1, idx + 2)
    ELSE SubSeq(s, idx + 1, idx + 1)

IsWhitespace(b) == b = " "

RECURSIVE trim_start(_)
trim_start(s) ==
    IF s # <<>> /\ IsWhitespace(Head(s)) THEN trim_start(Tail(s)) ELSE s

RECURSIVE trim_end(_)
trim_end(s) ==
    IF s # <<>> /\ IsWhitespace(s[Len(s)])
    THEN trim_end(SubSeq(s, 1, Len(s) - 1))
    ELSE s

\* str::trim
trim(s) == trim_end(trim_start(s))

\* str::starts_with("x")
starts_with_x(s) == s # <<>> /\ Head(s) = "x"

(* ------------------------------- codec --------------------------------- *)

Task(summary, completed) == [summary |-> summary, completed |-> completed]

\* Task::default()
TaskDefault == Task(<<>>, FALSE)

\* from_str keeping the white space after the leading 'x'
from_str_untrimmed(line) ==
    LET s == trim(line)
    IN  IF starts_with_x(s)
        THEN Task(Tail(s), TRUE)
        ELSE Task(s, FALSE)

\* impl FromStr for Task
from_str(line) ==
    LET s == trim(line)
    IN  IF starts_with_x(s)
        THEN Task(trim(Tail(s)), TRUE)
        ELSE Task(s, FALSE)

\* impl ToString for Task
to_string(task) ==
    IF task.completed
    THEN <<"x", " ">> \o task.summary
    ELSE <<" ", " ">> \o task.summary

RECURSIVE FirstLF(_, _)
\* position (from 1) of the first line feed at or after position k, 0 if none
FirstLF(s, k) ==
    IF k > Len(s) THEN 0
    ELSE IF s[k] = "LF" THEN k
    ELSE FirstLF(s, k + 1)

RECURSIVE lines(_)
\* str::lines: split at line feeds; a final line feed ends the last line
lines(contents) ==
    IF contents = <<>> THEN <<>>
    ELSE LET k == FirstLF(contents, 1)
         IN  IF k = 0 THEN <<contents>>
             ELSE <<SubSeq(contents, 1, k - 1)>>
                    \o lines(SubSeq(contents, k + 1, Len(contents)))

RECURSIVE ParseLines(_)
\* .filter(|line| !line.is_empty()).map(|line| line.parse())
ParseLines(ls) ==
    IF ls = <<>> THEN <<>>
    ELSE IF Head(ls) = <<>> THEN ParseLines(Tail(ls))
    ELSE <<from_str(Head(ls))>> \o ParseLines(Tail(ls))

\* TodoFile::load on a path that exists: the tasks read from the contents
load(contents) == ParseLines(lines(contents))

RECURSIVE SaveWrites(_)
\* the byte strings TodoFile::save hands to writer.write, in order
SaveWrites(ts) ==
    IF ts = <<>> THEN <<>>
    ELSE <<to_string(Head(ts)), <<"LF">>>> \o SaveWrites(Tail(ts))

RECURSIVE Concat(_)
Concat(ws) == IF ws = <<>> THEN <<>> ELSE Head(ws) \o Concat(Tail(ws))

\* the file after TodoFile::save when its first n writes succeeded
SavedPrefix(ts, n) == Concat(SubSeq(SaveWrites(ts), 1, n))

\* a save that opens the file for appending instead of creating it anew
save_appending(ts) == file \o SavedPrefix(ts, 2 * Len(ts))

\* the file after a TodoFile::save that returned Ok
save(ts) == SavedPrefix(ts, 2 * Len(ts))

(* ------------------------------- usize --------------------------------- *)

\* a < b as unsigned numbers: representatives below 0 stand for 2^64 - k
ULess(a, b) == IF (a >= 0) = (b >= 0) THEN a < b ELSE a >= 0

\* Ord::min on usize
umin(a, b) == IF ULess(b, a) THEN b ELSE a

\* usize::saturating_sub(1)
saturating_sub1(n) == IF n = 0 THEN 0 ELSE n - 1

\* n + 1 overflows
AddOverflows(n) == n = -1

\* n - 1 underflows
SubUnderflows(n) == n = 0

\* Vec index i is inside a vector of length len
InBounds(i, len) == i >= 0 /\ i < len

(* -------------------------------- App ---------------------------------- *)

View == [kind |-> "View"]
Select(i) == [kind |-> "Select", i |-> i]
Edit(item, cursor, text) ==
    [kind |-> "Edit", item |-> item, cursor |-> cursor, text |-> text]

\* the App value the handlers work on, with whether the handler panicked.
\* overflow_checks is the build's setting: on (the dev profile), an
\* arithmetic overflow panics; off (the release profile), it wraps
App(overflow_checks) ==
    [tasks |-> tasks, mode |-> mode, is_running |-> is_running,
     is_dirty |-> is_dirty, overflow_checks |-> overflow_checks,
     wrapped |-> wrapped, panic |-> FALSE]

\* an overflow in a build that lets it wrap
Wrap(a) == [a EXCEPT !.wrapped = TRUE]

Panic(a) == [a EXCEPT !.panic = TRUE]

\* Vec::insert(index, element) where index <= len
InsertAt(s, index, e) ==
    SubSeq(s, 1, index) \o <<e>> \o SubSeq(s, index + 1, Len(s))

\* Vec::remove(index) and String::remove of n bytes, where index < len
RemoveAt(s, index, n) ==
    SubSeq(s, 1, index) \o SubSeq(s, index + n + 1, Len(s))

quit(a) == [a EXCEPT !.is_running = FALSE]

select_first(a) == [a EXCEPT !.mode = Select(0)]

select_last(a) ==
    IF SubUnderflows(Len(a.tasks))
    THEN IF a.overflow_checks
         THEN Panic(a)
         ELSE Wrap([a EXCEPT !.mode = Select(Len(a.tasks) - 1)])
    ELSE [a EXCEPT !.mode = Select(Len(a.tasks) - 1)]

\* select_next without the clamp to the last index
select_next_unclamped(a) ==
    IF a.mode.kind = "Select"
    THEN [a EXCEPT !.mode = Select(a.mode.i + 1)]
    ELSE [a EXCEPT !.mode = Select(0)]

select_next(a) ==
    IF a.mode.kind = "Select"
    THEN LET next == Select(umin(a.mode.i + 1, Len(a.tasks) - 1))
         IN  IF AddOverflows(a.mode.i) \/ SubUnderflows(Len(a.tasks))
             THEN IF a.overflow_checks
                  THEN Panic(a)
                  ELSE Wrap([a EXCEPT !.mode = next])
             ELSE [a EXCEPT !.mode = next]
    ELSE [a EXCEPT !.mode = Select(0)]

select_prev(a) ==
    IF a.mode.kind = "Select"
    THEN [a EXCEPT !.mode = Select(saturating_sub1(a.mode.i))]
    ELSE [a EXCEPT !.mode = Select(0)]

\* complete_selected marking the record done instead of flipping it
complete_selected_sets(a) ==
    IF a.mode.kind = "Select"
    THEN IF ~InBounds(a.mode.i, Len(a.tasks))
         THEN Panic(a)
         ELSE [a EXCEPT !.tasks[a.mode.i + 1].completed = TRUE,
                        !.is_dirty = TRUE]
    ELSE a

complete_selected(a) ==
    IF a.mode.kind = "Select"
    THEN IF ~InBounds(a.mode.i, Len(a.tasks))
         THEN Panic(a)
         ELSE [a EXCEPT !.tasks[a.mode.i + 1].completed = ~@,
                        !.is_dirty = TRUE]
    ELSE a

delete_selected(a) ==
    IF a.mode.kind = "Select"
    THEN IF ~InBounds(a.mode.i, Len(a.tasks))
         THEN Panic(a)
         ELSE [a EXCEPT !.tasks = RemoveAt(a.tasks, a.mode.i, 1),
                        !.is_dirty = TRUE]
    ELSE a

edit_task(a) ==
    LET index == IF a.mode.kind = "Select" THEN a.mode.i ELSE 0
    IN  IF ~InBounds(index, Len(a.tasks))
        THEN Panic(a)
        ELSE LET text == a.tasks[index + 1].summary
             IN  [a EXCEPT !.mode = Edit(index, Len(text), text)]

\* add_edit_task entering Mode::Edit without inserting the new record
add_edit_task_no_insert(a, index) ==
    IF ~(index >= 0 /\ index <= Len(a.tasks))
    THEN Panic(a)
    ELSE [a EXCEPT !.mode = Edit(index, 0, <<>>)]

add_edit_task(a, index) ==
    IF ~(index >= 0 /\ index <= Len(a.tasks))
    THEN Panic(a)
    ELSE [a EXCEPT !.tasks = InsertAt(a.tasks, index, TaskDefault),
                   !.mode = Edit(index, 0, <<>>)]

insert_task(a) ==
    LET index == IF a.mode.kind = "Select"
                 THEN saturating_sub1(a.mode.i)
                 ELSE 0
    IN  add_edit_task(a, index)

append_task(a) ==
    IF a.mode.kind = "Select"
    THEN IF AddOverflows(a.mode.i)
         THEN IF a.overflow_checks
              THEN Panic(a)
              ELSE add_edit_task(Wrap(a), a.mode.i + 1)
         ELSE add_edit_task(a, a.mode.i + 1)
    ELSE add_edit_task(a, Len(a.tasks))

\* save_edit storing a new record built from the buffer
save_edit_new_record(a) ==
    IF a.mode.kind = "Edit"
    THEN IF ~InBounds(a.mode.item, Len(a.tasks))
         THEN Panic(a)
         ELSE [a EXCEPT !.tasks[a.mode.item + 1] = Task(a.mode.text, FALSE),
                        !.mode = Select(a.mode.item),
                        !.is_dirty = TRUE]
    ELSE [a EXCEPT !.is_dirty = TRUE]

save_edit(a) ==
    IF a.mode.kind = "Edit"
    THEN IF ~InBounds(a.mode.item, Len(a.tasks))
         THEN Panic(a)
         ELSE [a EXCEPT !.tasks[a.mode.item + 1].summary = a.mode.text,
                        !.mode = Select(a.mode.item),
                        !.is_dirty = TRUE]
    ELSE [a EXCEPT !.is_dirty = TRUE]

\* cancel_edit removing the edited record when its summary is empty
cancel_edit_removing(a) ==
    IF a.mode.kind = "Edit"
    THEN IF InBounds(a.mode.item, Len(a.tasks))
              /\ a.tasks[a.mode.item + 1].summary = <<>>
         THEN [a EXCEPT !.tasks = RemoveAt(a.tasks, a.mode.item, 1),
                        !.mode = Select(a.mode.item)]
         ELSE [a EXCEPT !.mode = Select(a.mode.item)]
    ELSE a

\* cancel_edit going back to Mode::View
cancel_edit_to_view(a) ==
    IF a.mode.kind = "Edit"
    THEN [a EXCEPT !.mode = View]
    ELSE a

cancel_edit(a) ==
    IF a.mode.kind = "Edit"
    THEN [a EXCEPT !.mode = Select(a.mode.item)]
    ELSE a

(* ----------------------- the edit buffer, in run ------------------------ *)

\* String::insert(idx, c): panics off a character boundary
string_insert_ok(s, idx) == idx <= Len(s) /\ is_char_boundary(s, idx)

\* String::remove(idx): panics at the end and off a character boundary
string_remove_ok(s, idx) == idx < Len(s) /\ is_char_boundary(s, idx)

\* String::insert(idx, c), where idx is on a character boundary
StringInsert(s, idx, c) == SubSeq(s, 1, idx) \o c \o SubSeq(s, idx + 1, Len(s))

\* KeyCode::Char(c) in Mode::Edit
edit_char(a, c) ==
    LET m == a.mode
    IN  IF ~string_insert_ok(m.text, m.cursor)
        THEN Panic(a)
        ELSE [a EXCEPT !.mode = Edit(m.item, m.cursor + 1,
                                     StringInsert(m.text, m.cursor, c))]

\* KeyCode::Backspace in Mode::Edit
edit_backspace(a) ==
    LET m == a.mode
    IN  IF m.cursor > 0
        THEN IF ~string_remove_ok(m.text, m.cursor - 1)
             THEN Panic(a)
             ELSE [a EXCEPT !.mode =
                      Edit(m.item, m.cursor - 1,
                           RemoveAt(m.text, m.cursor - 1,
                                    Len(CharAt(m.text, m.cursor - 1))))]
        ELSE a

\* KeyCode::Delete in Mode::Edit
edit_delete(a) ==
    LET m == a.mode
    IN  IF m.cursor < Len(m.text)
        THEN IF ~string_remove_ok(m.text, m.cursor)
             THEN Panic(a)
             ELSE [a EXCEPT !.mode =
                      Edit(m.item, m.cursor,
                           RemoveAt(m.text, m.cursor,
                                    Len(CharAt(m.text, m.cursor))))]
        ELSE a

\* KeyCode::Left in Mode::Edit
edit_left(a) ==
    LET m == a.mode
    IN  IF m.cursor > 0
        THEN [a EXCEPT !.mode = Edit(m.item, m.cursor - 1, m.text)]
        ELSE a

\* KeyCode::Right in Mode::Edit
edit_right(a) ==
    LET m == a.mode
    IN  IF m.cursor < Len(m.text)
        THEN [a EXCEPT !.mode = Edit(m.item, m.cursor + 1, m.text)]
        ELSE a

(* ------------------------- one iteration of run ------------------------- *)

\* how many of TodoFile::save's writes succeed: -1 when File::create fails,
\* all 2 * Len(ts) of them when save returns Ok
SaveOutcomes(ts) ==
    IF io_faults THEN -1 .. 2 * Len(ts) ELSE {2 * Len(ts)}

\* app.save() returned Err and the error is dropped: the loop goes on
save_err_ignored(a) == IF a.is_running THEN "run" ELSE "done"

\* the `?` of `app.save()?` when app.save() returned Err: run returns it
save_err_propagated(a) == "io_error"

\* the rest of the iteration after the key handler returned a: a panic ends
\* the program; otherwise `if app.is_dirty { app.save()?; }` and the loop test
Finish(a, k) ==
    /\ key' = k
    /\ wrapped' = a.wrapped
    /\ io_faults' = io_faults
    /\ IF a.panic
       THEN /\ pc' = "panic"
            /\ save_result' = "none"
            /\ UNCHANGED <<tasks, mode, is_running, is_dirty, file, written,
                           saves>>
       ELSE /\ tasks' = a.tasks
            /\ mode' = a.mode
            /\ is_running' = a.is_running
            /\ IF a.is_dirty
               THEN \E n \in SaveOutcomes(a.tasks) :
                      IF n = 2 * Len(a.tasks)
                      THEN /\ file' = save(a.tasks)
                           /\ written' = a.tasks
                           /\ saves' = IF saves >= 1 /\ a.tasks = written
                                       THEN 2 ELSE 1
                           /\ is_dirty' = FALSE
                           /\ save_result' = "ok"
                           /\ pc' = IF a.is_running THEN "run" ELSE "done"
                      ELSE /\ file' = IF n = -1 THEN file
                                      ELSE SavedPrefix(a.tasks, n)
                           /\ written' = written
                           /\ saves' = IF saves = 2 THEN 1 ELSE saves
                           /\ is_dirty' = TRUE
                           /\ save_result' = "err"
                           /\ pc' = save_err_propagated(a)
               ELSE /\ UNCHANGED <<file, written>>
                    /\ saves' = IF saves = 2 THEN 1 ELSE saves
                    /\ is_dirty' = FALSE
                    /\ save_result' = "none"
                    /\ pc' = IF a.is_running THEN "run" ELSE "done"

\* the number of characters of a string: its bytes that start one
CharCount(s) == Cardinality({n \in 1..Len(s) : ~IsContinuation(s[n])})

\* the characters held while editing: the buffer and the other summaries
CharsHeld ==
    CharCount(mode.text)
      + CharCount(Concat([n \in 1..Len(tasks) |->
                            IF n = mode.item + 1 THEN <<>>
                            ELSE tasks[n].summary]))

\* the selection index stays within MaxWalk of the document
WithinWalk(a) ==
    a.mode.kind = "Select" =>
        a.mode.i >= -MaxWalk /\ a.mode.i <= Len(a.tasks) + MaxWalk

InMode(kind) == pc = "run" /\ mode.kind = kind

\* the overflow_checks settings the run so far can come from: both, until
\* an overflow has wrapped.  Only select_last, select_next and append_task
\* do arithmetic that can overflow; the other handlers never read the
\* setting and are given App(FALSE)
Builds == IF wrapped THEN {FALSE} ELSE BOOLEAN

(* Mode::View *)
ViewQuit == InMode("View") /\ Finish(quit(App(FALSE)), "q")
ViewAppend ==
    /\ InMode("View")
    /\ \E oc \in Builds :
         /\ append_task(App(oc)).panic \/ Len(tasks) < MaxTasks
         /\ Finish(append_task(App(oc)), "a")
ViewFirst == InMode("View") /\ Finish(select_first(App(FALSE)), "g")
ViewLast ==
    /\ InMode("View")
    /\ \E oc \in Builds :
         WithinWalk(select_last(App(oc))) /\ Finish(select_last(App(oc)), "G")
ViewNext ==
    InMode("View") /\ \E oc \in Builds : Finish(select_next(App(oc)), "j")
ViewPrev == InMode("View") /\ Finish(select_prev(App(FALSE)), "k")

(* Mode::Select *)
SelectFirst == InMode("Select") /\ Finish(select_first(App(FALSE)), "g")
SelectLast ==
    /\ InMode("Select")
    /\ \E oc \in Builds :
         WithinWalk(select_last(App(oc))) /\ Finish(select_last(App(oc)), "G")
SelectNext ==
    /\ InMode("Select")
    /\ \E oc \in Builds :
         WithinWalk(select_next(App(oc))) /\ Finish(select_next(App(oc)), "j")
SelectPrev ==
    /\ InMode("Select")
    /\ WithinWalk(select_prev(App(FALSE)))
    /\ Finish(select_prev(App(FALSE)), "k")
SelectComplete ==
    InMode("Select") /\ Finish(complete_selected(App(FALSE)), "space")
SelectDelete == InMode("Select") /\ Finish(delete_selected(App(FALSE)), "x")
SelectInsert ==
    /\ InMode("Select")
    /\ insert_task(App(FALSE)).panic \/ Len(tasks) < MaxTasks
    /\ Finish(insert_task(App(FALSE)), "i")
SelectAppend ==
    /\ InMode("Select")
    /\ \E oc \in Builds :
         /\ append_task(App(oc)).panic \/ Len(tasks) < MaxTasks
         /\ Finish(append_task(App(oc)), "a")
SelectEdit == InMode("Select") /\ Finish(edit_task(App(FALSE)), "e")
SelectQuit == InMode("Select") /\ Finish(quit(App(FALSE)), "q")

(* Mode::Edit *)
EditCancel == InMode("Edit") /\ Finish(cancel_edit(App(FALSE)), "Esc")
EditChar ==
    /\ InMode("Edit")
    /\ \E c \in KeyChars :
         /\ edit_char(App(FALSE), c).panic \/ CharsHeld < MaxChars
         /\ Finish(edit_char(App(FALSE), c), "Char")
EditBackspace ==
    InMode("Edit") /\ Finish(edit_backspace(App(FALSE)), "Backspace")
EditDelete == InMode("Edit") /\ Finish(edit_delete(App(FALSE)), "Delete")
EditLeft == InMode("Edit") /\ Finish(edit_left(App(FALSE)), "Left")
EditRight == InMode("Edit") /\ Finish(edit_right(App(FALSE)), "Right")
EditCommit == InMode("Edit") /\ Finish(save_edit(App(FALSE)), "Enter")

\* a key no arm of the current mode matches (`_ => {}`), or no key within
\* the poll timeout: nothing changes and nothing is dirty
KeyIgnored == pc = "run" /\ UNCHANGED vars

(* --------------------------- specifications ---------------------------- *)

\* the files the program is started on: empty, one pending task, one
\* completed task, a completed and a pending task around an empty line
InitFiles ==
    { <<>>,
      <<" ", " ", "C3", "A9", "LF">>,
      <<"x", " ", "C3", "A9", "LF">>,
      <<"x", " ", "x", "LF", "LF", "C3", "A9", "LF">> }

\* App::load: TodoFile::load of the path, then Mode::View, running, clean
Init ==
    /\ \E exists \in BOOLEAN, contents \in InitFiles :
         /\ file = IF exists THEN contents ELSE <<>>
         /\ tasks = IF exists THEN load(contents) ELSE <<>>
    /\ written = tasks
    /\ mode = View
    /\ is_running = TRUE
    /\ is_dirty = FALSE
    /\ pc = "run"
    /\ key = "none"
    /\ save_result = "none"
    /\ saves = 0
    /\ wrapped = FALSE
    /\ io_faults = FALSE

\* the same start on a file system that may fail
InitIO ==
    /\ \E exists \in BOOLEAN, contents \in InitFiles :
         /\ file = IF exists THEN contents ELSE <<>>
         /\ tasks = IF exists THEN load(contents) ELSE <<>>
    /\ written = tasks
    /\ mode = View
    /\ is_running = TRUE
    /\ is_dirty = FALSE
    /\ pc = "run"
    /\ key = "none"
    /\ save_result = "none"
    /\ saves = 0
    /\ wrapped = FALSE
    /\ io_faults = TRUE

Next ==
    \/ ViewQuit \/ ViewAppend \/ ViewFirst \/ ViewLast \/ ViewNext \/ ViewPrev
    \/ SelectFirst \/ SelectLast \/ SelectNext \/ SelectPrev
    \/ SelectComplete \/ SelectDelete \/ SelectInsert \/ SelectAppend
    \/ SelectEdit \/ SelectQuit
    \/ EditCancel \/ EditChar \/ EditBackspace \/ EditDelete
    \/ EditLeft \/ EditRight \/ EditCommit
    \/ KeyIgnored

\* the editor on a file system that does not fail
Spec == Init /\ [][Next]_vars

\* the editor on a file system whose File::create and write may fail
SpecIO == InitIO /\ [][Next]_vars

(* ------------------------ the codec on its own -------------------------- *)

CodecTask == {Task(sm, c) : sm \in StringsUpTo(MaxCodecLen), c \in BOOLEAN}

RECURSIVE SeqsOfLen(_, _)
SeqsOfLen(S, n) ==
    IF n = 0 THEN {<<>>}
    ELSE {<<e>> \o q : e \in S, q \in SeqsOfLen(S, n - 1)}

\* the task sequences of length n handed to the codec
CodecSeqs(n) == [1..n -> CodecTask]

\* a TodoFile holding any sequence of tasks, not yet saved
CodecInit ==
    /\ \E n \in 0..MaxCodecTasks : tasks \in CodecSeqs(n)
    /\ written = tasks
    /\ file = <<>>
    /\ mode = View
    /\ is_running = TRUE
    /\ is_dirty = FALSE
    /\ pc = "codec"
    /\ key = "none"
    /\ save_result = "none"
    /\ saves = 0
    /\ wrapped = FALSE
    /\ io_faults = FALSE

\* TodoFile::save, returning Ok
CodecSave ==
    /\ pc = "codec"
    /\ file' = save(tasks)
    /\ written' = tasks
    /\ save_result' = "ok"
    /\ saves' = 1
    /\ pc' = "codec_saved"
    /\ UNCHANGED <<tasks, mode, is_running, is_dirty, key, wrapped, io_faults>>

\* TodoFile::load of the file just saved
CodecLoad ==
    /\ pc = "codec_saved"
    /\ tasks' = load(file)
    /\ pc' = "codec_loaded"
    /\ UNCHANGED <<mode, is_running, is_dirty, file, key, save_result,
                   written, saves, wrapped, io_faults>>

CodecNext == CodecSave \/ CodecLoad

SpecCodec == CodecInit /\ [][CodecNext]_vars

(* ------------------- load, save and load of any file -------------------- *)

\* the characters of a file: those of a line, and the line feed
FileChars == Chars \cup {<<"LF">>}

RECURSIVE FilesOfLen(_)
\* every file of exactly n bytes made of whole characters
FilesOfLen(n) ==
    IF n = 0 THEN {<<>>}
    ELSE UNION {{c \o s : s \in FilesOfLen(n - Len(c))} :
                    c \in {d \in FileChars : Len(d) <= n}}

\* a file of any contents at the path, nothing loaded yet
LoadInit ==
    /\ \E n \in 0..MaxFileLen : file \in FilesOfLen(n)
    /\ tasks = <<>>
    /\ written = <<>>
    /\ mode = View
    /\ is_running = TRUE
    /\ is_dirty = FALSE
    /\ pc = "load"
    /\ key = "none"
    /\ save_result = "none"
    /\ saves = 0
    /\ wrapped = FALSE
    /\ io_faults = FALSE

\* TodoFile::load of the path, which exists
LoadFile ==
    /\ pc = "load"
    /\ tasks' = load(file)
    /\ pc' = "codec"
    /\ UNCHANGED <<mode, is_running, is_dirty, file, key, save_result,
                   written, saves, wrapped, io_faults>>

LoadNext == LoadFile \/ CodecSave \/ CodecLoad

\* TodoFile::load of any file, then TodoFile::save and TodoFile::load again
SpecLoad == LoadInit /\ [][LoadNext]_vars

(* ------------------------------- claims --------------------------------- *)

\* C1: parsing the lines produced by formatting a sequence of task records
\* yields exactly that sequence: same length, order, completed flags and
\* summaries, also for summaries that start with 'x', are empty or have
\* leading or trailing spaces.
C1_RoundTrip == pc = "codec_loaded" => tasks = written

\* C2: immediately after a successful save, loading the file yields the
\* in-memory task sequence.
C2_SaveThenLoad == save_result = "ok" => load(file) = tasks

\* b is a with one record inserted
OneInserted(a, b) ==
    /\ Len(b) = Len(a) + 1
    /\ \E n \in 0..Len(a) : RemoveAt(b, n, 1) = a

\* b is a with one completion flag flipped or one summary rewritten
OneRewritten(a, b) ==
    /\ Len(b) = Len(a)
    /\ \E n \in 1..Len(a) :
         /\ \A m \in 1..Len(a) : m # n => b[m] = a[m]
         /\ \/ b[n].summary = a[n].summary
            \/ b[n].completed = a[n].completed

\* b is a, or a after one mutation: a record inserted, a record removed,
\* a completion flag flipped or a summary rewritten
AtMostOneMutation(a, b) ==
    \/ b = a
    \/ OneInserted(a, b)
    \/ OneInserted(b, a)
    \/ OneRewritten(a, b)

\* C3: whenever the loop is about to poll for the next key event, the
\* in-memory sequence is at most one mutation ahead of the sequence last
\* written to the file.
C3_AtMostOneMutationAhead ==
    pc = "run" => AtMostOneMutation(written, tasks)

\* the keys bound to an operation of the editor state machine (the
\* remaining keys work on the edit buffer, quit or do nothing)
OperationKeys ==
    {"g", "G", "j", "k", "space", "x", "e", "i", "a", "Enter", "Esc"}

\* C4: no editor operation fails: selectFirst, selectLast, selectNext,
\* selectPrev, toggleCompletion, deleteSelected, beginEdit,
\* beginInsertBefore, beginAppendAfter, commitEdit and cancelEdit complete
\* without an out-of-bounds access or an integer underflow.
C4_NoOperationFails == ~(pc = "panic" /\ key \in OperationKeys)

\* C5: on a sequence of N >= 1 records, from any reachable Selecting(i),
\* also one left stale by a delete, selectNext moves to min(i+1, N-1) and
\* never to an index >= N, and selectPrev moves to max(i-1, 0) and never
\* below 0; neither wraps around.
C5_SelectionClamping ==
    [][/\ (pc = "run" /\ mode.kind = "Select" /\ Len(tasks) >= 1
             /\ key' = "j")
          => /\ mode.i >= 0
             /\ pc' = "run"
             /\ tasks' = tasks
             /\ mode' = Select(Min(mode.i + 1, Len(tasks) - 1))
             /\ mode'.i < Len(tasks')
       /\ (pc = "run" /\ mode.kind = "Select" /\ Len(tasks) >= 1
             /\ key' = "k")
          => /\ mode.i >= 0
             /\ pc' = "run"
             /\ tasks' = tasks
             /\ mode' = Select(Max(mode.i - 1, 0))
             /\ mode'.i >= 0
      ]_vars

\* selectNext has run and the selection rests on the last of several records
C5_Witness ==
    /\ pc = "run"
    /\ key = "j"
    /\ mode.kind = "Select"
    /\ Len(tasks) >= 2
    /\ mode.i = Len(tasks) - 1

\* C6: beginInsertBefore in Selecting(i) inserts one new record (empty
\* summary, not completed) immediately before the selected record: the mode
\* becomes Editing(k, 0, "") on the new record, the record that was selected
\* is at index k+1, and the old records keep their order and contents.
C6_InsertBeforeSelected ==
    [][(pc = "run" /\ mode.kind = "Select" /\ InBounds(mode.i, Len(tasks))
          /\ key' = "i")
       => /\ pc' = "run"
          /\ mode'.kind = "Edit"
          /\ mode' = Edit(mode'.item, 0, <<>>)
          /\ InBounds(mode'.item, Len(tasks'))
          /\ tasks'[mode'.item + 1] = TaskDefault
          /\ RemoveAt(tasks', mode'.item, 1) = tasks
          /\ mode'.item = mode.i
      ]_vars

\* C7: beginAppendAfter in any reachable Selecting(i) inserts one new record
\* (empty summary, not completed) at index i+1 and enters
\* Editing(i+1, 0, ""); when not selecting, the record goes to the end and
\* the mode becomes Editing(oldLength, 0, ""); the old records keep their
\* order and contents.
C7_AppendAfterSelected ==
    [][/\ (pc = "run" /\ mode.kind = "Select" /\ key' = "a")
          => /\ pc' = "run"
             /\ mode' = Edit(mode.i + 1, 0, <<>>)
             /\ InBounds(mode.i + 1, Len(tasks'))
             /\ tasks'[mode.i + 2] = TaskDefault
             /\ RemoveAt(tasks', mode.i + 1, 1) = tasks
       /\ (pc = "run" /\ mode.kind = "View" /\ key' = "a")
          => /\ pc' = "run"
             /\ mode' = Edit(Len(tasks), 0, <<>>)
             /\ tasks' = Append(tasks, TaskDefault)
      ]_vars

RECURSIVE TypeAll(_, _)
\* KeyCode::Char for each character of cs in turn, up to the first panic
TypeAll(a, cs) ==
    IF cs = <<>> \/ a.panic THEN a
    ELSE TypeAll(edit_char(a, Head(cs)), Tail(cs))

\* the character sequences typed: one to MaxTyped characters
TypedSeqs == UNION {SeqsOfLen(KeyChars, n) : n \in 1..MaxTyped}

\* C8: typing c1..cn in Editing(i, 0, "") and then commitEdit yields record
\* i with summary c1..cn and its completed flag unchanged, mode
\* Selecting(i), and the dirty flag set, so that the save of the same
\* iteration writes the line of a pending record as two spaces and the
\* summary.
C8_TypeThenCommit ==
    (pc = "run" /\ mode.kind = "Edit" /\ mode.cursor = 0 /\ mode.text = <<>>)
    => \A cs \in TypedSeqs :
         LET typed == TypeAll(App(FALSE), cs)
             done == save_edit(typed)
             i == mode.item
         IN  /\ ~typed.panic
             /\ ~done.panic
             /\ done.tasks = [tasks EXCEPT ![i + 1].summary = Concat(cs)]
             /\ done.mode = Select(i)
             /\ done.is_dirty
             /\ ~tasks[i + 1].completed
                  => SaveWrites(done.tasks)[2 * i + 1]
                       = <<" ", " ">> \o Concat(cs)

\* C9: from Selecting(i) with i in bounds, beginEdit, then any text-buffer
\* operations, then commitEdit leave the number and order of the records,
\* every completed flag and every summary but record i's unchanged.
C9_EditCommitPreservesOrder ==
    [][/\ (pc = "run" /\ mode.kind = "Select"
             /\ InBounds(mode.i, Len(tasks)) /\ key' = "e")
          => /\ pc' = "run"
             /\ tasks' = tasks
             /\ mode'.kind = "Edit"
             /\ mode'.item = mode.i
       /\ (pc = "run" /\ mode.kind = "Edit" /\ key' \notin {"Enter", "Esc"})
          => /\ tasks' = tasks
             /\ pc' = "run" => mode'.kind = "Edit" /\ mode'.item = mode.item
       /\ (pc = "run" /\ mode.kind = "Edit" /\ key' = "Enter")
          => /\ pc' # "panic"
             /\ Len(tasks') = Len(tasks)
             /\ \A n \in 1..Len(tasks) :
                  /\ tasks'[n].completed = tasks[n].completed
                  /\ n # mode.item + 1 => tasks'[n].summary = tasks[n].summary
      ]_vars

\* an edit of a completed record, begun by beginEdit, has been committed
\* and saved in a document of several records
C9_Witness ==
    /\ pc = "run"
    /\ key = "Enter"
    /\ save_result = "ok"
    /\ mode.kind = "Select"
    /\ Len(tasks) >= 2
    /\ InBounds(mode.i, Len(tasks))
    /\ tasks[mode.i + 1].completed

\* C10: in Selecting(i) with i in bounds, toggleCompletion flips record i's
\* completed flag and nothing else (summaries, other records and the mode
\* stay), marks the document dirty, and applied a second time restores the
\* original flag.
C10_ToggleSelfInverse ==
    [][(pc = "run" /\ mode.kind = "Select" /\ InBounds(mode.i, Len(tasks))
          /\ key' = "space")
       => /\ pc' # "panic"
          /\ tasks' = [tasks EXCEPT ![mode.i + 1].completed =
                                      ~tasks[mode.i + 1].completed]
          /\ mode' = mode
          /\ complete_selected(App(FALSE)).is_dirty
          /\ save_result' # "none"
          /\ complete_selected(App(FALSE)').tasks = tasks
          /\ complete_selected(App(FALSE)').mode = mode
      ]_vars

\* a completed record of a document of several records has been toggled back
\* to pending and saved
C10_Witness ==
    /\ pc = "run"
    /\ key = "space"
    /\ save_result = "ok"
    /\ mode.kind = "Select"
    /\ Len(tasks) >= 2
    /\ InBounds(mode.i, Len(tasks))
    /\ ~tasks[mode.i + 1].completed
    /\ tasks[mode.i + 1].summary # <<>>

\* the non-empty lines of a file, which are the lines load parses
NonEmptyLines(contents) == SelectSeq(lines(contents), LAMBDA l : l # <<>>)

\* a line that begins with the letter 'x' followed by whitespace
BeginsWithXSpace(l) == Len(l) >= 2 /\ l[1] = "x" /\ IsWhitespace(l[2])

\* C11: load makes one task of every non-empty line, completed exactly when
\* the line begins with 'x' followed by whitespace; every other line (such
\* as 'x' directly followed by another character, or 'x' alone) gives a
\* pending task whose summary is the line's text (here: as it stands or
\* trimmed).
C11_LineClassification ==
    (pc = "codec" /\ save_result = "none")
    => LET ls == NonEmptyLines(file)
       IN  /\ Len(tasks) = Len(ls)
           /\ \A n \in 1..Len(ls) :
                /\ tasks[n].completed = BeginsWithXSpace(ls[n])
                /\ ~BeginsWithXSpace(ls[n])
                     => tasks[n].summary \in {ls[n], trim(ls[n])}

\* C20: loading any file, saving the result and loading again yields the
\* tasks of the first load (parse(format(parse(line))) = parse(line) for
\* every non-empty line), and the save writes exactly one non-empty line
\* per record, so the number of records is kept.
C20_LoadNormalises ==
    /\ (pc = "codec" /\ save_result = "none")
       => \A n \in 1..Len(NonEmptyLines(file)) :
            LET l == NonEmptyLines(file)[n]
            IN  from_str(to_string(from_str(l))) = from_str(l)
    /\ (pc = "codec_saved")
       => /\ tasks = written
          /\ Len(lines(file)) = Len(tasks)
          /\ NonEmptyLines(file) = lines(file)
    /\ (pc = "codec_loaded")
       => /\ tasks = written
          /\ Len(tasks) = Len(lines(file))

\* a completed record with a summary and a pending record have been loaded
\* from a file, saved and loaded again
C20_Witness ==
    /\ pc = "codec_loaded"
    /\ Len(tasks) = 2
    /\ tasks[1].completed
    /\ tasks[1].summary # <<>>
    /\ ~tasks[2].completed
    /\ file = save(tasks)

\* C12: when a save fails after File::create succeeded, a following load of
\* the file yields either the tasks that were on disk before the save or
\* all the tasks being saved, never an empty or cut-off part of them.
C12_AtomicSave ==
    [][(pc = "run" /\ save_result' = "err")
       => \/ load(file') = load(file)
          \/ load(file') = load(save(tasks'))
      ]_vars

\* the lines of a sequence of tasks, each followed by a line feed
SavedForm(ts) == Concat(SaveWrites(ts))

\* C13: a save of the sequence that the previous save wrote produces the
\* same file contents again; the contents a save writes depend on the
\* sequence alone; and a save changes neither the in-memory sequence nor
\* the mode (they are as the key handler left them).
C13_IdempotentSave ==
    [][/\ (pc = "run" /\ save_result' = "ok")
          => /\ file' = SavedForm(tasks')
             /\ written' = tasks'
             /\ saves' = 2 => file' = file
       /\ (pc = "run" /\ mode.kind = "Edit" /\ key' = "Enter"
             /\ InBounds(mode.item, Len(tasks))
             /\ mode.text = tasks[mode.item + 1].summary
             /\ tasks = written /\ saves >= 1)
          => /\ save_result' = "ok"
             /\ saves' = 2
             /\ file' = file
             /\ tasks' = tasks
             /\ mode' = Select(mode.item)
      ]_vars

\* a document of two records, one with a summary, has been saved twice
\* running with no change of the sequence in between
C13_Witness ==
    /\ pc = "run"
    /\ saves = 2
    /\ save_result = "ok"
    /\ Len(tasks) = 2
    /\ \E n \in 1..2 : tasks[n].summary # <<>>

\* C14: in every state reached by key events, a mode Selecting(i) on a
\* non-empty sequence has i < length of the sequence, also after
\* deleteSelected has removed the last of two or more records.
C14_SelectionIndexInvariant ==
    (pc = "run" /\ mode.kind = "Select" /\ Len(tasks) >= 1)
    => InBounds(mode.i, Len(tasks))

\* C15: in every reachable state whose mode is Editing(item, cursor, text),
\* item < length of the sequence: when Editing is entered by beginEdit,
\* beginInsertBefore or beginAppendAfter, and as long as the mode stays
\* Editing.
C15_EditingIndexInvariant ==
    mode.kind = "Edit" => InBounds(mode.item, Len(tasks))

\* beginAppendAfter has entered Editing on a new last record of a document
\* that had records before
C15_Witness ==
    /\ pc = "run"
    /\ key = "a"
    /\ mode.kind = "Edit"
    /\ mode.item >= 1
    /\ mode.item = Len(tasks) - 1

\* C16: in every reachable Editing state 0 <= cursor <= length(text);
\* typing a character puts it at the cursor and moves the cursor on by one;
\* backspace at cursor 0 and forward-delete at the end change nothing;
\* backspace elsewhere removes the character before the cursor and moves
\* the cursor back by one; left and right move the cursor by one, clamped
\* to [0, length(text)].
C16_CursorInvariant ==
    [][/\ mode'.kind = "Edit"
          => mode'.cursor >= 0 /\ mode'.cursor <= Len(mode'.text)
       /\ (pc = "run" /\ mode.kind = "Edit" /\ key' = "Char")
          => /\ pc' = "run"
             /\ mode'.item = mode.item
             /\ mode'.cursor = mode.cursor + 1
             /\ \E c \in KeyChars :
                  mode'.text = StringInsert(mode.text, mode.cursor, c)
       /\ (pc = "run" /\ mode.kind = "Edit" /\ key' = "Backspace")
          => IF mode.cursor = 0
             THEN pc' = "run" /\ mode' = mode
             ELSE /\ pc' = "run"
                  /\ mode'.item = mode.item
                  /\ mode'.cursor = mode.cursor - 1
                  /\ CharCount(mode'.text) = CharCount(mode.text) - 1
                  /\ SubSeq(mode'.text, mode'.cursor + 1, Len(mode'.text))
                       = SubSeq(mode.text, mode.cursor + 1, Len(mode.text))
       /\ (pc = "run" /\ mode.kind = "Edit" /\ key' = "Delete"
             /\ mode.cursor = Len(mode.text))
          => pc' = "run" /\ mode' = mode
       /\ (pc = "run" /\ mode.kind = "Edit" /\ key' = "Left")
          => /\ pc' = "run"
             /\ mode' = Edit(mode.item, Max(mode.cursor - 1, 0), mode.text)
       /\ (pc = "run" /\ mode.kind = "Edit" /\ key' = "Right")
          => /\ pc' = "run"
             /\ mode' = Edit(mode.item, Min(mode.cursor + 1, Len(mode.text)),
                             mode.text)
      ]_vars

\* C17: cancelEdit in Editing(i, _, _) goes to Selecting(i) and leaves the
\* sequence as it was when Editing was entered: no key typed while Editing
\* touches a summary or a completed flag, the dirty flag is not set and
\* nothing is saved, and the record that insert or append created stays in
\* the sequence as a pending record with an empty summary.
C17_CancelEditFrame ==
    [][/\ (pc = "run" /\ key' \in {"i", "a"} /\ pc' = "run")
          => /\ mode' = Edit(mode'.item, 0, <<>>)
             /\ Len(tasks') = Len(tasks) + 1
             /\ tasks'[mode'.item + 1] = TaskDefault
       /\ (pc = "run" /\ mode.kind = "Edit" /\ key' \notin {"Enter", "Esc"})
          => /\ tasks' = tasks
             /\ file' = file
             /\ pc' = "run" => mode'.kind = "Edit" /\ mode'.item = mode.item
       /\ (pc = "run" /\ mode.kind = "Edit" /\ key' = "Esc")
          => /\ pc' = "run"
             /\ mode' = Select(mode.item)
             /\ tasks' = tasks
             /\ ~is_dirty'
             /\ save_result' = "none"
             /\ file' = file
      ]_vars

\* an edit opened by insert or append has been cancelled: the new empty
\* pending record is selected, among others, and has not been written
C17_Witness ==
    /\ pc = "run"
    /\ key = "Esc"
    /\ mode.kind = "Select"
    /\ Len(tasks) >= 2
    /\ InBounds(mode.i, Len(tasks))
    /\ tasks[mode.i + 1] = TaskDefault
    /\ Len(written) < Len(tasks)

\* the sequence the handler of key k leaves, for the keys that set is_dirty
DirtyHandlerTasks(k) ==
    CASE k = "space" -> complete_selected(App(FALSE)).tasks
      [] k = "x" -> delete_selected(App(FALSE)).tasks
      [] k = "Enter" -> save_edit(App(FALSE)).tasks

\* C18: when the save triggered by the dirty flag returns an error, the
\* loop ends in that same iteration with the error: no further key event
\* is processed, the save is not tried again, and the in-memory sequence is
\* as the key handler left it.
C18_FailedSaveFatal ==
    [][/\ (pc = "run" /\ save_result' = "err")
          => /\ pc' = "io_error"
             /\ key' \in {"space", "x", "Enter"}
             /\ tasks' = DirtyHandlerTasks(key')
             /\ written' = written
       /\ save_result = "err" => FALSE
       /\ pc = "io_error" => FALSE
      ]_vars

\* a save of several records has failed after it had written some of them,
\* and run has returned the error
C18_Witness ==
    /\ pc = "io_error"
    /\ save_result = "err"
    /\ Len(tasks) >= 2
    /\ file # <<>>
    /\ file # save(tasks)
    /\ tasks # written

\* C19: View is only the initial mode: once a key has moved the mode to
\* Select or Edit no key brings it back to View; from Edit the only other
\* mode reached is Select, by Enter or Esc; and the loop is quit from View
\* or Select only, never from Edit.
C19_ViewOnlyInitial ==
    [][/\ mode.kind # "View" => mode'.kind # "View"
       /\ mode.kind = "Edit"
          => /\ mode'.kind \in {"Edit", "Select"}
             /\ mode'.kind = "Select" => key' \in {"Enter", "Esc"}
             /\ is_running'
             /\ pc' # "done"
       /\ (pc = "run" /\ pc' = "done")
          => mode.kind \in {"View", "Select"} /\ key' = "q" /\ mode' = mode
      ]_vars

\* the loop has been quit from Select, after a save, on a document that
\* holds a record with the summary "x"
C19_Witness ==
    /\ pc = "done"
    /\ key = "q"
    /\ mode.kind = "Select"
    /\ saves >= 1
    /\ \E n \in 1..Len(tasks) : tasks[n].summary = CharX

====
